---- MODULE Spec2Model ----
(***************************************************************************)
(* Model of apps/pig/src/pig/models.py: the Document / PigScript records,  *)
(* the upsert entry point create_or_update_script, the listing query       *)
(* get_scripts, and the helpers get_workflow_output and hdfs_link.         *)
(*                                                                         *)
(* Python values are encoded as sequences of strings so that any two of    *)
(* them can be compared: None is <<"null">>, the string s is <<"str", s>>, *)
(* the list l of strings is <<"list">> \o l.                               *)
(***************************************************************************)
EXTENDS Integers, Sequences, FiniteSets, TLC

VARIABLES
  store,    \* the PigScript table: id -> [owner, is_design, data]
  pig,      \* the PigScript object the last upsert returned (in memory)
  op,       \* the operation that produced this state
  arg,      \* the arguments of that operation
  ret,      \* what that operation returned or raised
  conf,     \* oozie_workflow.conf_dict
  fs,       \* the filesystem handle: path -> outcome of fs.exists(path)
  url       \* the argument of hdfs_link

vars == <<store, pig, op, arg, ret, conf, fs, url>>

-----------------------------------------------------------------------------
(* Bounds *)

MaxRecords == 3    \* rows of the table under Spec
MaxCount == 3      \* max_count ranges over 0..MaxCount
MaxScripts == 1    \* rows of the table under SpecScript
MaxUrlLen == 7     \* characters of a url

-----------------------------------------------------------------------------
(* Python values *)

Null == <<"null">>

Str(s) == <<"str", s>>

List(l) == <<"list">> \o l

\* Python truthiness of a value: None, '' and [] are false.
Truthy(v) == v # Null /\ v # Str("") /\ v # List(<<>>)

\* dict.get(key): the value, or None when the key is absent.
Get(d, k) == IF k \in DOMAIN d THEN d[k] ELSE Null

-----------------------------------------------------------------------------
(* Users *)

SAMPLE_OWNER == 1100713

Users ==
  { [pk |-> 1, is_superuser |-> FALSE],
    [pk |-> 2, is_superuser |-> TRUE],
    [pk |-> SAMPLE_OWNER, is_superuser |-> FALSE] }

-----------------------------------------------------------------------------
(* PigScript.data: the JSON text of a mapping *)

ATTRIBUTES == <<"script", "name", "properties", "job_id", "parameters", "resources">>

AttributeSet == {ATTRIBUTES[i] : i \in DOMAIN ATTRIBUTES}

\* The order in which json.dumps writes the keys of a mapping.
KeyOrder ==
  <<"job_id", "legacy", "name", "parameters", "properties", "resources", "script">>

\* json.dumps: the text of a mapping, a sequence of key/value members.
dumps(d) ==
  LET keys == SelectSeq(KeyOrder, LAMBDA k : k \in DOMAIN d)
  IN  [i \in 1..Len(keys) |-> [k |-> keys[i], v |-> d[keys[i]]]]

\* json.loads: the mapping a text denotes (the last member of a key wins).
loads(t) ==
  LET keys == {t[i].k : i \in DOMAIN t}
      last(k) == CHOOSE i \in DOMAIN t :
                   /\ t[i].k = k
                   /\ \A j \in DOMAIN t : t[j].k = k => j <= i
  IN  [k \in keys |-> t[last(k)].v]

DefaultDict ==
  [script |-> Str(""), name |-> Str(""), properties |-> List(<<>>),
   job_id |-> Null, parameters |-> List(<<>>), resources |-> List(<<>>)]

DefaultData == dumps(DefaultDict)

\* PigScript.dict
dict(script) == loads(script.data)

RECURSIVE ApplyAttrs(_, _, _)
\* The loop of update_from_dict over _ATTRIBUTES, from position i on.
ApplyAttrs(data_dict, attrs, i) ==
  IF i > Len(ATTRIBUTES) THEN data_dict
  ELSE LET attr == ATTRIBUTES[i]
       IN  ApplyAttrs(IF Get(attrs, attr) # Null
                        THEN (attr :> attrs[attr]) @@ data_dict
                        ELSE data_dict,
                      attrs, i + 1)

RECURSIVE ApplyTruthyAttrs(_, _, _)
\* The loop with "if attrs.get(attr):" in place of "is not None".
ApplyTruthyAttrs(data_dict, attrs, i) ==
  IF i > Len(ATTRIBUTES) THEN data_dict
  ELSE LET attr == ATTRIBUTES[i]
       IN  ApplyTruthyAttrs(IF Truthy(Get(attrs, attr))
                              THEN (attr :> attrs[attr]) @@ data_dict
                              ELSE data_dict,
                            attrs, i + 1)

\* Variant: a falsy value ('' or []) is skipped like None.
update_from_dict_truthy(script, attrs) ==
  [script EXCEPT !.data = dumps(ApplyTruthyAttrs(dict(script), attrs, 1))]

\* Variant: the attributes replace the stored mapping instead of merging.
update_from_dict_replace(script, attrs) ==
  [script EXCEPT !.data = dumps(attrs)]

\* Variant: the loop starts from an empty mapping, not from self.dict.
update_from_dict_reset(script, attrs) ==
  [script EXCEPT !.data = dumps(ApplyAttrs(<< >>, attrs, 1))]

\* PigScript.update_from_dict: the object with its data field rewritten.
update_from_dict(script, attrs) ==
  [script EXCEPT !.data = dumps(ApplyAttrs(dict(script), attrs, 1))]

-----------------------------------------------------------------------------
(* Document authorization *)

\* Variant: the superuser privilege is not consulted.
is_editable_owner_only(doc, user) == doc.owner = user.pk

is_editable(doc, user) == user.is_superuser \/ doc.owner = user.pk

\* Variant: the guard never raises.
can_edit_always(doc, user, exception_class) ==
  [raised |-> FALSE, value |-> TRUE, exc |-> "none"]

can_edit_or_exception(doc, user, exception_class) ==
  IF is_editable(doc, user)
    THEN [raised |-> FALSE, value |-> TRUE, exc |-> "none"]
    ELSE [raised |-> TRUE, value |-> FALSE, exc |-> exception_class]

-----------------------------------------------------------------------------
(* The PigScript table *)

\* The in-memory object of the row stored under id.
Load(st, id) ==
  [id |-> id, owner |-> st[id].owner, is_design |-> st[id].is_design,
   data |-> st[id].data]

\* No object: the value of pig before any upsert has returned.
NoObject == [id |-> 0, owner |-> 0, is_design |-> FALSE, data |-> <<>>]

\* The id the table gives the next row (auto-increment; nothing is deleted).
NewId(st) == Cardinality(DOMAIN st) + 1

\* PigScript.objects.get(id=id): the object, or DoesNotExist raised.
objects_get(st, id) ==
  IF id \in DOMAIN st
    THEN [raised |-> FALSE, obj |-> Load(st, id)]
    ELSE [raised |-> TRUE, obj |-> NoObject]

\* Variant: the is_design argument is dropped and the field default used.
objects_create_default_design(st, owner, is_design) ==
  (NewId(st) :> [owner |-> owner.pk, is_design |-> TRUE, data |-> DefaultData])
    @@ st

\* PigScript.objects.create(owner=, is_design=): a new row with the default
\* data, saved; the table after it.
objects_create(st, owner, is_design) ==
  (NewId(st) :> [owner |-> owner.pk, is_design |-> is_design, data |-> DefaultData])
    @@ st

\* The try/except of create_or_update_script: the object to update and the
\* table after the lookup, the authorization and the fallback.
get_or_create(st, id, user, is_design) ==
  LET got == objects_get(st, id)
      failed == \/ got.raised
                \/ can_edit_or_exception(got.obj, user, "PopupException").raised
  IN  IF failed
        THEN LET st2 == objects_create(st, user, is_design)
             IN  [store |-> st2, pig_script |-> Load(st2, NewId(st))]
        ELSE [store |-> st, pig_script |-> got.obj]

\* create_or_update_script: the table after the call and the object returned.
create_or_update_script(st, id, name, script, user, parameters, resources, is_design) ==
  LET r == get_or_create(st, id, user, is_design)
      attrs == [name |-> name, script |-> script,
                parameters |-> parameters, resources |-> resources]
  IN  [store |-> r.store, pig_script |-> update_from_dict(r.pig_script, attrs)]

RECURSIVE order_by_desc(_)
\* order_by('-id'): the ids of a set, highest first.
order_by_desc(ids) ==
  IF ids = {} THEN <<>>
  ELSE LET m == CHOOSE x \in ids : \A y \in ids : y <= x
       IN  <<m>> \o order_by_desc(ids \ {m})

\* Variant: the owner filter also lets the superusers' rows through.
visible_ids_unfiltered(st, user, max_count) ==
  LET ids == DOMAIN st
      ordered == order_by_desc(ids)
  IN  SubSeq(ordered, 1, IF max_count < Len(ordered) THEN max_count ELSE Len(ordered))

\* The queryset of get_scripts: filter, order, slice.
visible_ids(st, user, max_count) ==
  LET ids == {i \in DOMAIN st : st[i].owner \in {user.pk, SAMPLE_OWNER}}
      ordered == order_by_desc(ids)
  IN  SubSeq(ordered, 1, IF max_count < Len(ordered) THEN max_count ELSE Len(ordered))

massaged_script(st, id) ==
  LET data == loads(st[id].data)
  IN  [id |-> id, name |-> data["name"], script |-> data["script"],
       parameters |-> data["parameters"], resources |-> data["resources"],
       isDesign |-> st[id].is_design]

get_scripts(st, user, max_count) ==
  LET ids == visible_ids(st, user, max_count)
  IN  [i \in 1..Len(ids) |-> massaged_script(st, ids[i])]

-----------------------------------------------------------------------------
(* get_workflow_output *)

\* fs.exists(path): the handle answers "true" or "false", or fails ("error").
get_workflow_output(conf_dict, fsh) ==
  IF "workflowRoot" \in DOMAIN conf_dict
    THEN LET output == Get(conf_dict, "workflowRoot")
         IN  IF Truthy(output)
               THEN IF fsh[output] = "error"
                      THEN [raised |-> TRUE, value |-> Null]
                      ELSE IF fsh[output] = "false"
                             THEN [raised |-> FALSE, value |-> Null]
                             ELSE [raised |-> FALSE, value |-> output]
               ELSE [raised |-> FALSE, value |-> output]
    ELSE [raised |-> FALSE, value |-> Null]

-----------------------------------------------------------------------------
(* hdfs_link: strings are sequences of characters, None is Null *)

SEP == <<"/">>

FILEBROWSER_VIEW ==
  <<"/", "f", "i", "l", "e", "b", "r", "o", "w", "s", "e", "r", "/", "v", "i", "e", "w">>

FILEBROWSER_HOME_RELATIVE_VIEW ==
  <<"/", "f", "i", "l", "e", "b", "r", "o", "w", "s", "e", "r", "/",
    "h", "o", "m", "e", "_", "r", "e", "l", "a", "t", "i", "v", "e", "_",
    "v", "i", "e", "w", "/">>

\* str.startswith
StartsWith(s, prefix) ==
  Len(s) >= Len(prefix) /\ SubSeq(s, 1, Len(prefix)) = prefix

\* str.find: the first position (from 1) where sub occurs in s, or 0.
Find(s, sub) ==
  LET hits == {i \in 1..(Len(s) - Len(sub) + 1) : SubSeq(s, i, i + Len(sub) - 1) = sub}
  IN  IF hits = {} THEN 0 ELSE CHOOSE i \in hits : \A j \in hits : i <= j

\* Hdfs.urlsplit: <<scheme, netloc, path>>. A url without "://" is all path;
\* otherwise the path runs from the first "/" after the netloc to the end.
urlsplit(u) ==
  LET i == Find(u, <<":", "/", "/">>)
  IN  IF i = 0 THEN <<<< >>, << >>, u>>
      ELSE LET rest == SubSeq(u, i + 3, Len(u))
               j == Find(rest, SEP)
           IN  IF j = 0 THEN <<SubSeq(u, 1, i - 1), rest, << >> >>
               ELSE <<SubSeq(u, 1, i - 1), SubSeq(rest, 1, j - 1),
                      SubSeq(rest, j, Len(rest))>>

\* Variant: the two filebrowser views are exchanged.
hdfs_link_swapped(u) ==
  IF u # Null /\ u # << >>
    THEN LET path == urlsplit(u)[3]
         IN  IF path # << >>
               THEN IF StartsWith(path, SEP)
                      THEN FILEBROWSER_HOME_RELATIVE_VIEW \o path
                      ELSE FILEBROWSER_VIEW \o path
               ELSE u
    ELSE u

hdfs_link(u) ==
  IF u # Null /\ u # << >>
    THEN LET path == urlsplit(u)[3]
         IN  IF path # << >>
               THEN IF StartsWith(path, SEP)
                      THEN FILEBROWSER_VIEW \o path
                      ELSE FILEBROWSER_HOME_RELATIVE_VIEW \o path
               ELSE u
    ELSE u

-----------------------------------------------------------------------------
(* Arguments *)

IdArgs == 0..(MaxRecords + 1)    \* 0 stands for an omitted id (None)

\* name, script, parameters, resources as the callers of the upsert pass them.
Payloads ==
  { [name |-> Null, script |-> Null, parameters |-> Null, resources |-> Null],
    [name |-> Str("n"), script |-> Str("s"),
     parameters |-> List(<<"p">>), resources |-> List(<<"r">>)],
    [name |-> Str("n"), script |-> Null,
     parameters |-> List(<<"p">>), resources |-> Null],
    [name |-> Null, script |-> Str(""),
     parameters |-> Null, resources |-> List(<< >>)] }

ExceptionKinds == {"PopupException", "PermissionDenied"}

\* The keys an attribute mapping may hold: the whitelist and one other key.
AttrKeys == AttributeSet \cup {"legacy"}

\* Attribute mappings of at most one key, for update_from_dict under
\* SpecScript.
SmallAttrs ==
  {<< >>} \cup {k :> v : k \in AttrKeys, v \in {Null, Str("x")}}

\* All attribute mappings over AttrKeys, for update_from_dict under SpecUpdate.
AllAttrs ==
  UNION {[K -> {Null, Str(""), List(<<"x">>)}] : K \in SUBSET AttrKeys}

\* The scripts update_from_dict is applied to under SpecUpdate: blobs with the
\* default values, with values set, and with a key older versions wrote.
StoredDicts ==
  { DefaultDict,
    ("legacy" :> Str("old")) @@ DefaultDict,
    [DefaultDict EXCEPT !.name = Str("n"), !.job_id = Str("j"),
                        !.properties = List(<<"k">>)],
    ("legacy" :> Null) @@
      [DefaultDict EXCEPT !.script = Str("s"), !.resources = List(<<"r">>)] }

\* What the table holds when the requests start: nothing, or a saved script
\* of the shared owner.
SampleDict ==
  [DefaultDict EXCEPT !.name = Str("sample"), !.script = Str("s0"),
                      !.job_id = Str("j")]

InitialStores ==
  { << >>,
    1 :> [owner |-> SAMPLE_OWNER, is_design |-> TRUE, data |-> dumps(SampleDict)] }

WorkflowRoots == {Null, Str(""), Str("/out"), Str("/tmp"), Str("rel")}

Paths == {v \in WorkflowRoots : Truthy(v)}

ConfDicts ==
  LET base == {<< >>, "nameNode" :> Str("hdfs://nn")}
  IN  base \cup {("workflowRoot" :> v) @@ b : v \in WorkflowRoots, b \in base}

Alphabet == {"a", ":", "/"}

Urls == {Null} \cup UNION {[1..n -> Alphabet] : n \in 0..MaxUrlLen}

-----------------------------------------------------------------------------
(* Requests against the table: each runs to completion, then returns *)

\* The variables of the two helper functions, which the table operations
\* leave alone.
helperVars == <<conf, fs, url>>

CreateOrUpdateScript ==
  \E id \in IdArgs, p \in Payloads, user \in Users, is_design \in BOOLEAN :
    LET r == create_or_update_script(store, id, p.name, p.script, user,
                                     p.parameters, p.resources, is_design)
    IN  /\ op = "idle"
        /\ Cardinality(DOMAIN r.store) <= MaxRecords
        /\ store' = r.store
        /\ pig' = r.pig_script
        /\ op' = "create_or_update_script"
        /\ arg' = [id |-> id, name |-> p.name, script |-> p.script,
                   user |-> user, parameters |-> p.parameters,
                   resources |-> p.resources, is_design |-> is_design]
        /\ ret' = r.pig_script
        /\ UNCHANGED helperVars

CanEditOrException ==
  \E id \in DOMAIN store, user \in Users, exception_class \in ExceptionKinds :
    /\ op = "idle"
    /\ op' = "can_edit_or_exception"
    /\ arg' = [id |-> id, user |-> user, exception_class |-> exception_class]
    /\ ret' = can_edit_or_exception(Load(store, id), user, exception_class)
    /\ UNCHANGED <<store, pig>>
    /\ UNCHANGED helperVars

GetScripts ==
  \E user \in Users, max_count \in 0..MaxCount :
    /\ op = "idle"
    /\ op' = "get_scripts"
    /\ arg' = [user |-> user, max_count |-> max_count]
    /\ ret' = get_scripts(store, user, max_count)
    /\ UNCHANGED <<store, pig>>
    /\ UNCHANGED helperVars

\* The request is over: its arguments, its result and the object it held
\* are dropped; the table stays.
Return ==
  /\ op # "idle"
  /\ op' = "idle"
  /\ arg' = << >>
  /\ ret' = << >>
  /\ pig' = NoObject
  /\ UNCHANGED store
  /\ UNCHANGED helperVars

HelperInit ==
  /\ conf = << >>
  /\ fs = << >>
  /\ url = Null

Init ==
  /\ store \in InitialStores
  /\ pig = NoObject
  /\ op = "idle"
  /\ arg = << >>
  /\ ret = << >>
  /\ HelperInit

Next ==
  \/ CreateOrUpdateScript
  \/ CanEditOrException
  \/ GetScripts
  \/ Return

Spec == Init /\ [][Next]_vars

-----------------------------------------------------------------------------
(* A script object that is created or loaded, then updated again and again *)

InitScript ==
  /\ store = << >>
  /\ pig = NoObject
  /\ op = "idle"
  /\ arg = << >>
  /\ ret = << >>
  /\ HelperInit

UpsertScript ==
  \E id \in 0..(MaxScripts + 1), user \in Users, is_design \in BOOLEAN,
     v \in {Null, Str("x")} :
    LET r == create_or_update_script(store, id, v, v, user, v, v, is_design)
    IN  /\ Cardinality(DOMAIN r.store) <= MaxScripts
        /\ store' = r.store
        /\ pig' = r.pig_script
        /\ op' = "create_or_update_script"
        /\ UNCHANGED <<arg, ret>>
        /\ UNCHANGED helperVars

UpdateScript ==
  \E attrs \in SmallAttrs :
    /\ pig # NoObject
    /\ pig' = update_from_dict(pig, attrs)
    /\ op' = "update_from_dict"
    /\ UNCHANGED <<store, arg, ret>>
    /\ UNCHANGED helperVars

NextScript ==
  \/ UpsertScript
  \/ UpdateScript

SpecScript == InitScript /\ [][NextScript]_vars

-----------------------------------------------------------------------------
(* update_from_dict on any script with any attribute mapping *)

InitUpdate ==
  /\ store = << >>
  /\ \E d \in StoredDicts :
       pig = [id |-> 1, owner |-> 1, is_design |-> TRUE, data |-> dumps(d)]
  /\ op = "idle"
  /\ arg \in AllAttrs
  /\ ret = << >>
  /\ HelperInit

UpdateFromDict ==
  /\ op = "idle"
  /\ pig' = update_from_dict(pig, arg)
  /\ op' = "update_from_dict"
  /\ UNCHANGED <<store, arg, ret>>
  /\ UNCHANGED helperVars

NextUpdate == UpdateFromDict

SpecUpdate == InitUpdate /\ [][NextUpdate]_vars

-----------------------------------------------------------------------------
(* get_workflow_output on any configuration and filesystem *)

InitWorkflow ==
  /\ store = << >>
  /\ pig = NoObject
  /\ op = "idle"
  /\ arg = << >>
  /\ ret = << >>
  /\ conf \in ConfDicts
  /\ fs \in [Paths -> {"true", "false", "error"}]
  /\ url = Null

GetWorkflowOutput ==
  /\ op = "idle"
  /\ op' = "get_workflow_output"
  /\ ret' = get_workflow_output(conf, fs)
  /\ UNCHANGED <<store, pig, arg>>
  /\ UNCHANGED helperVars

NextWorkflow == GetWorkflowOutput

SpecWorkflow == InitWorkflow /\ [][NextWorkflow]_vars

-----------------------------------------------------------------------------
(* hdfs_link on any url *)

InitLink ==
  /\ store = << >>
  /\ pig = NoObject
  /\ op = "idle"
  /\ arg = << >>
  /\ ret = << >>
  /\ conf = << >>
  /\ fs = << >>
  /\ url \in Urls

HdfsLink ==
  /\ op = "idle"
  /\ op' = "hdfs_link"
  /\ ret' = hdfs_link(url)
  /\ UNCHANGED <<store, pig, arg>>
  /\ UNCHANGED helperVars

NextLink == HdfsLink

SpecLink == InitLink /\ [][NextLink]_vars

-----------------------------------------------------------------------------
(* Properties *)

\* The mapping d with the whitelist keys that m maps to a non-null value
\* overwritten by m's values, and nothing else changed.
Overwritten(d, m) ==
  LET keys == {k \in AttributeSet : k \in DOMAIN m /\ m[k] # Null}
  IN  [k \in DOMAIN d \cup keys |-> IF k \in keys THEN m[k] ELSE d[k]]

\* The four arguments of the upsert that carry script content.
ContentArgs == {"name", "script", "parameters", "resources"}

IsUpsert == op = "create_or_update_script"

\* C1 as stated: when create_or_update_script returns, the row stored under
\* the returned record's id holds the non-null arguments, and reloading it
\* gives the same mapping as the returned record.
C1_StoredHoldsArguments ==
  IsUpsert =>
    /\ ret.id \in DOMAIN store
    /\ loads(store[ret.id].data) = dict(ret)
    /\ \A k \in ContentArgs :
         arg[k] # Null => loads(store[ret.id].data)[k] = arg[k]

\* C1 amended: the returned record is a row of the table (same id, owner and
\* is_design) whose in-memory mapping is the stored mapping overwritten with
\* the non-null arguments; the stored blob itself is not written by the call:
\* it is the default blob of a created row, the prior blob of an existing one.
C1_ReturnedHoldsArgumentsUnsaved ==
  [][op' = "create_or_update_script" =>
       /\ ret'.id \in DOMAIN store'
       /\ store'[ret'.id].owner = ret'.owner
       /\ store'[ret'.id].is_design = ret'.is_design
       /\ dict(ret') = Overwritten(loads(store'[ret'.id].data),
                                   [k \in ContentArgs |-> arg'[k]])
       /\ store'[ret'.id].data = IF ret'.id \in DOMAIN store
                                   THEN store[ret'.id].data
                                   ELSE DefaultData]_vars

\* C1 witness: a saved row was updated with a name and no script; the object
\* returned has the new name and the saved script, the stored blob still has
\* the old name.
C1_Witness ==
  /\ IsUpsert
  /\ arg.id = ret.id
  /\ arg.name = Str("n")
  /\ arg.script = Null
  /\ dict(ret)["name"] = Str("n")
  /\ dict(ret)["script"] = Str("s0")
  /\ loads(store[ret.id].data)["name"] = Str("sample")

\* C2: an upsert with the id of a row owned by another user, by a caller who
\* is no superuser, leaves that row as it was and returns a new row with a
\* different id, owned by the caller.
C2_ForbiddenFallsBackToCreate ==
  [][(/\ op' = "create_or_update_script"
      /\ arg'.id \in DOMAIN store
      /\ store[arg'.id].owner # arg'.user.pk
      /\ ~arg'.user.is_superuser) =>
       /\ ret'.id # arg'.id
       /\ ret'.id \notin DOMAIN store
       /\ ret'.id \in DOMAIN store'
       /\ ret'.owner = arg'.user.pk
       /\ store'[arg'.id] = store[arg'.id]]_vars

\* C2 witness: such a call has returned.
C2_Witness ==
  /\ IsUpsert
  /\ arg.id \in DOMAIN store
  /\ store[arg.id].owner # arg.user.pk
  /\ ~arg.user.is_superuser
  /\ ret.id # arg.id
  /\ store[arg.id].is_design # arg.is_design
  /\ store[arg.id].data = dumps(SampleDict)
  /\ arg.name = Str("n")

\* C3: an upsert whose id is omitted or names no row adds exactly one row,
\* owned by the caller and with the is_design given, and changes no other row.
C3_UnknownIdCreates ==
  [][(op' = "create_or_update_script" /\ arg'.id \notin DOMAIN store) =>
       /\ ret'.id \notin DOMAIN store
       /\ DOMAIN store' = DOMAIN store \cup {ret'.id}
       /\ store'[ret'.id].owner = arg'.user.pk
       /\ store'[ret'.id].is_design = arg'.is_design
       /\ ret'.owner = arg'.user.pk
       /\ ret'.is_design = arg'.is_design
       /\ \A i \in DOMAIN store : store'[i] = store[i]]_vars

\* C3 witness: a row was created for an id beyond every stored one, as a
\* submission, next to two older rows.
C3_Witness ==
  /\ IsUpsert
  /\ arg.id = MaxRecords + 1
  /\ ~arg.is_design
  /\ ret.id = MaxRecords
  /\ ~store[ret.id].is_design

\* C4: after update_from_dict(m) the mapping of the script is the mapping
\* before with exactly the whitelist keys of m that have a non-null value
\* overwritten.
C4_UpdateOverwritesNonNullWhitelist ==
  [][op' = "update_from_dict" => dict(pig') = Overwritten(dict(pig), arg)]_vars

\* C4 witness: a blob with a non-whitelist key, updated by a mapping with a
\* non-whitelist key, a null value, an empty string and a list.
C4_Witness ==
  /\ op = "update_from_dict"
  /\ DOMAIN arg = {"legacy", "script", "name", "parameters"}
  /\ arg["legacy"] = Str("")
  /\ arg["script"] = Null
  /\ arg["name"] = Str("")
  /\ arg["parameters"] = List(<<"x">>)
  /\ dict(pig) = [("legacy" :> Str("old")) @@ DefaultDict
                    EXCEPT !["parameters"] = List(<<"x">>)]

\* C5: get_scripts returns at most max_count entries, none of them owned by
\* a third party, with strictly decreasing ids, and they are the highest
\* visible ids.
C5_ListingVisibleCappedDescending ==
  op = "get_scripts" =>
    LET visible == {i \in DOMAIN store :
                      store[i].owner \in {arg.user.pk, SAMPLE_OWNER}}
        listed == {ret[i].id : i \in DOMAIN ret}
    IN  /\ Len(ret) <= arg.max_count
        /\ listed \subseteq visible
        /\ \A i, j \in DOMAIN ret : i < j => ret[i].id > ret[j].id
        /\ \A v \in visible \ listed :
             Len(ret) = arg.max_count /\ \A l \in listed : l > v
        /\ \A i \in DOMAIN ret : ret[i].isDesign = store[ret[i].id].is_design

\* C5 witness: two rows listed, a third party's row between them left out.
C5_Witness ==
  /\ op = "get_scripts"
  /\ Len(ret) = 2
  /\ ret[1].id = 3
  /\ ret[2].id = 1
  /\ store[2].owner \notin {arg.user.pk, SAMPLE_OWNER}
  /\ store[1].owner # store[3].owner

IsWorkflowOutput == op = "get_workflow_output"

\* C6 as stated: get_workflow_output never raises; a failing existence check
\* counts as "does not exist" and None is returned.
C6_NeverRaises ==
  IsWorkflowOutput =>
    /\ ~ret.raised
    /\ (\E path \in DOMAIN fs : conf = ("workflowRoot" :> path) /\ fs[path] = "error")
         => ret.value = Null

\* C7 as stated: whenever get_workflow_output returns, it returns the value
\* of workflowRoot if the key is present and the path exists, and None in
\* every other case.
C7_ValueIffExistsElseNone ==
  (IsWorkflowOutput /\ ~ret.raised) =>
    LET present == "workflowRoot" \in DOMAIN conf
        exists == /\ conf["workflowRoot"] \in DOMAIN fs
                  /\ fs[conf["workflowRoot"]] = "true"
    IN  ret.value = IF present /\ exists THEN conf["workflowRoot"] ELSE Null

\* C8: can_edit_or_exception returns true exactly for a superuser or the
\* owner, raises the given exception kind otherwise, and changes no row.
C8_GuardDecidesAndChangesNothing ==
  [][op' = "can_edit_or_exception" =>
       LET allowed == \/ arg'.user.is_superuser
                      \/ store[arg'.id].owner = arg'.user.pk
       IN  /\ allowed => (~ret'.raised /\ ret'.value = TRUE)
           /\ ~allowed => (ret'.raised /\ ret'.exc = arg'.exception_class)
           /\ store' = store]_vars

\* C8 witness: the guard refused a user who is neither, with the kind asked.
C8_Witness ==
  /\ op = "can_edit_or_exception"
  /\ ret.raised
  /\ ret.exc = "PermissionDenied"
  /\ ~arg.user.is_superuser
  /\ store[arg.id].owner # arg.user.pk

\* C9: hdfs_link returns None and '' as they are, a url with an empty path as
\* it is, "/filebrowser/view" + path for an absolute path and
\* "/filebrowser/home_relative_view/" + path for a relative one.
C9_LinkByPath ==
  op = "hdfs_link" =>
    IF url = Null \/ url = << >> THEN ret = url
    ELSE LET path == urlsplit(url)[3]
         IN  /\ path = << >> => ret = url
             /\ (path # << >> /\ path[1] = "/") =>
                  /\ Len(ret) = Len(path) + 17
                  /\ SubSeq(ret, 1, 17) = FILEBROWSER_VIEW
                  /\ SubSeq(ret, 18, Len(ret)) = path
             /\ (path # << >> /\ path[1] # "/") =>
                  /\ Len(ret) = Len(path) + 32
                  /\ SubSeq(ret, 1, 32) = FILEBROWSER_HOME_RELATIVE_VIEW
                  /\ SubSeq(ret, 33, Len(ret)) = path

\* C9 witness: a url with scheme, host and absolute path was rewritten.
C9_Witness ==
  /\ op = "hdfs_link"
  /\ url = <<"a", ":", "/", "/", "a", "/", "a">>
  /\ ret = FILEBROWSER_VIEW \o <<"/", "a">>

\* C10: the blob of every PigScript, stored or in memory, reads back as a
\* mapping that has all the declared keys.
C10_BlobKeepsDeclaredKeys ==
  /\ \A i \in DOMAIN store : AttributeSet \subseteq DOMAIN loads(store[i].data)
  /\ pig # NoObject => AttributeSet \subseteq DOMAIN dict(pig)

\* C10 witness: a script was upserted with null arguments and then updated
\* key by key, null values included.
C10_Witness ==
  /\ op = "update_from_dict"
  /\ dict(pig)["properties"] = Str("x")
  /\ dict(pig)["job_id"] = Str("x")
  /\ dict(pig)["name"] = Str("")
  /\ dict(pig)["parameters"] = List(<< >>)

====
